---- MODULE Spec2Model ----
(***************************************************************************)
(* A model of Moo::Reader (MooReader.h), the decoder of the MOO chunked    *)
(* test-vector format: the byte cursor, the chunk header decoder, the      *)
(* file header decoder, the CPU state decoder, the test decoder and the    *)
(* collection index.  Bytes are the integers 0..255, strings and tags are  *)
(* tuples of character codes, offsets are the C++ 0-based offsets.         *)
(***************************************************************************)
EXTENDS Integers, Sequences, FiniteSets, TLC

VARIABLES
    data_,            \* std::vector<uint8_t> data_
    offset_,          \* size_t offset_
    mooheader_,       \* MooHeader mooheader_
    tests_,           \* std::vector<Test> tests_
    test_map_,        \* unordered_map<hash, size_t> test_map_
    revocation_list_, \* unordered_set<hash> revocation_list_
    pc,               \* where the running call stands ("idle": no call is running)
    err,              \* how the last call ended: "none" or the exception it threw
    frame,            \* the locals of Analyze / ReadTest / ReadCpuState
    ret,              \* the value the last primitive or accessor call returned
    hist              \* history: the Reader before the running call, the call's input

vars == <<data_, offset_, mooheader_, tests_, test_map_, revocation_list_,
          pc, err, frame, ret, hist>>

(***************************************************************************)
(* Bounds of the model.                                                    *)
(***************************************************************************)
\* AddFromFile calls made on one Reader.
MaxLoads == 2
\* Header test_count values run over 0..MaxCount.
MaxCount == 2
\* The unknown chunk inserted into a file holds 0..MaxJunk HASH chunks as payload.
MaxJunk == 1
\* Cursor positions past the end of the buffer tried by the primitive reads.
MaxPast == 2
\* the largest byte count given to ReadBytes on its own
MaxBytes == 3
\* AddRevocationList calls made on one Reader.
MaxRevCalls == 2
\* Lines of one revocation list.
MaxLines == 2

(***************************************************************************)
(* Program constants.                                                      *)
(***************************************************************************)
REG16_COUNT == 14
REG32_COUNT == 20
HashLen == 20

\* The exceptions the decoder throws, by their message (all std::runtime_error).
TruncatedInput     == "Read past end of data"
InvalidContainer   == "Invalid MOO file - missing MOO header"
UnsupportedVersion == "Unsupported MOO version"
UnsupportedCpu     == "Unsupported CPU type"
StructuralErrors   == {TruncatedInput, InvalidContainer, UnsupportedVersion, UnsupportedCpu}

\* A value that was never written (a member without an initializer).
Indeterminate == "indeterminate"
IndetNum == 0 - 1

(***************************************************************************)
(* Tags and strings, as character codes.                                   *)
(***************************************************************************)
SP == 32
TagMOO  == <<77, 79, 79, 32>>
TagTEST == <<84, 69, 83, 84>>
TagNAME == <<78, 65, 77, 69>>
TagBYTS == <<66, 89, 84, 83>>
TagINIT == <<73, 78, 73, 84>>
TagFINA == <<70, 73, 78, 65>>
TagCYCL == <<67, 89, 67, 76>>
TagEXCP == <<69, 88, 67, 80>>
TagHASH == <<72, 65, 83, 72>>
TagGMET == <<71, 77, 69, 84>>
TagREGS == <<82, 69, 71, 83>>
TagRG32 == <<82, 71, 51, 50>>
TagRMSK == <<82, 77, 83, 75>>
TagRM32 == <<82, 77, 51, 50>>
TagRAM  == <<82, 65, 77, 32>>
TagQUEU == <<81, 85, 69, 85>>
TagMETA == <<77, 69, 84, 65>>
TagZZZZ == <<90, 90, 90, 90>>
TagMOO0 == <<77, 79, 79, 0>>

Id8088 == <<56, 48, 56, 56>>
Id88   == <<56, 56, 32, 32>>
Id8086 == <<56, 48, 56, 54>>
IdV20  == <<86, 50, 48, 32>>
IdV30  == <<86, 51, 48, 32>>
Id186  == <<49, 56, 54, 32>>
Id286  == <<50, 56, 54, 32>>
IdC286 == <<67, 50, 56, 54>>
Id386E == <<51, 56, 54, 69>>
IdZ80  == <<90, 56, 48, 32>>
Idv20  == <<118, 50, 48, 32>>

Spaces(n) == [k \in 1..n |-> SP]
\* cpu_name is 8 characters: the 4 read from the file over std::string(8, ' ').
Name8(id) == id \o Spaces(4)

(***************************************************************************)
(* Byte cursor: Read<DATA>() and ReadBytes().  A result is                 *)
(* [ok, v, off]: whether the read returned, the value, the cursor after.   *)
(***************************************************************************)
RECURSIVE Pow2(_)
Pow2(n) == IF n = 0 THEN 1 ELSE 2 * Pow2(n - 1)

RECURSIVE LittleEndian(_, _, _)
\* value = data[off] | data[off+1] << 8 | ...  over `width` bytes
LittleEndian(data, off, width) ==
    IF width = 0 THEN 0
    ELSE data[off + 1] + 256 * LittleEndian(data, off + 1, width - 1)

\* The bounds check of Read and ReadBytes: throw when offset_ + n > data_.size().
PastEndAlways(data, off, n) == off + n >= Len(data)
PastEnd(data, off, n) == off + n > Len(data)

AdvanceNone(off, n) == off
Advance(off, n) == off + n

Thrown(off) == [ok |-> FALSE, v |-> 0, off |-> off]

Read(data, off, width) ==
    IF PastEnd(data, off, width) THEN Thrown(off)
    ELSE [ok |-> TRUE, v |-> LittleEndian(data, off, width), off |-> Advance(off, width)]

ReadBytes(data, off, count) ==
    IF PastEnd(data, off, count) THEN Thrown(off)
    ELSE [ok |-> TRUE, v |-> SubSeq(data, off + 1, off + count), off |-> Advance(off, count)]

(***************************************************************************)
(* Chunk header decoder.                                                   *)
(***************************************************************************)
\* header.data_end = offset_ + header.length
DataEndStart(start, length) == start
DataEnd(start, length) == start + length

ReadChunkHeader(data, off) ==
    LET t == ReadBytes(data, off, 4) IN
    IF ~t.ok THEN Thrown(t.off)
    ELSE LET l == Read(data, t.off, 4) IN
         IF ~l.ok THEN Thrown(l.off)
         ELSE [ok |-> TRUE, off |-> l.off,
               v |-> [type |-> t.v, length |-> l.v, data_start |-> l.off,
                      data_end |-> DataEnd(l.off, l.v)]]

\* first_chunk_header.type != "MOO " (all four characters compared)
IsMooTagLoose(type) == SubSeq(type, 1, 3) = <<77, 79, 79>>
IsMooTag(type) == type = <<77, 79, 79, 32>>

NoChunk == [type |-> <<>>, length |-> 0, data_start |-> 0, data_end |-> 0]

\* "offset_ = chunk.data_end": where the cursor stands once a chunk is handled,
\* given where the payload decoder left it.
ResetStay(chunk, off) == off
ResetTo(chunk, off) == chunk.data_end

(***************************************************************************)
(* Register sets: RegisterState, ReadRegisters16, ReadRegisters32.         *)
(***************************************************************************)
REG_16 == "REG_16"
REG_32 == "REG_32"

\* RegisterState{}: bitmask 0, no values, type REG_16, not populated.
DefaultRegisterState ==
    [bitmask |-> 0, values |-> <<>>, type |-> REG_16, is_populated |-> FALSE]

\* bitmask & (1 << i)
\* (bit 31 is never set: the model's 32-bit values stay below 2^31)
BitSetShifted(bitmask, i) == i < 30 /\ ((bitmask \div Pow2(i + 1)) % 2) = 1
BitSet(bitmask, i) == i < 31 /\ ((bitmask \div Pow2(i)) % 2) = 1

\* values.resize(COUNT): indices 0..COUNT-1, value-initialised.
ZeroValues(count) == [r \in 0..(count - 1) |-> 0]

\* values[i] = v.  An index at or past values.size() is a write outside the
\* vector (undefined behaviour): `oob` records that it happened.
StoreShifted(acc, i, v) ==
    IF (i + 1) \in DOMAIN acc.values
    THEN [acc EXCEPT !.values[i + 1] = v]
    ELSE [acc EXCEPT !.oob = TRUE]
Store(acc, i, v) ==
    IF i \in DOMAIN acc.values
    THEN [acc EXCEPT !.values[i] = v]
    ELSE [acc EXCEPT !.oob = TRUE]

RECURSIVE RegisterLoop(_, _, _, _, _, _)
\* for (int i = 0; i < nbits; i++) if (bitmask & (1 << i)) values[i] = Read<width>();
RegisterLoop(data, bitmask, width, nbits, i, acc) ==
    IF i >= nbits \/ ~acc.ok THEN acc
    ELSE IF ~BitSet(bitmask, i)
         THEN RegisterLoop(data, bitmask, width, nbits, i + 1, acc)
         ELSE LET r == Read(data, acc.off, width) IN
              IF ~r.ok THEN [acc EXCEPT !.ok = FALSE]
              ELSE RegisterLoop(data, bitmask, width, nbits, i + 1,
                                [Store(acc, i, r.v) EXCEPT !.off = r.off])

\* Result: [ok, v: RegisterState, off, oob].
ReadRegisters(data, off, width, count, type) ==
    LET b == Read(data, off, width) IN
    IF ~b.ok THEN [ok |-> FALSE, v |-> DefaultRegisterState, off |-> b.off, oob |-> FALSE]
    ELSE LET acc == RegisterLoop(data, b.v, width, 8 * width, 0,
                        [ok |-> TRUE, off |-> b.off, oob |-> FALSE,
                         values |-> ZeroValues(count)])
         IN [ok |-> acc.ok, off |-> acc.off, oob |-> acc.oob,
             v |-> [bitmask |-> b.v, values |-> acc.values, type |-> type,
                    is_populated |-> TRUE]]

ReadRegisters16(data, off) == ReadRegisters(data, off, 2, REG16_COUNT, REG_16)
ReadRegisters32Narrow(data, off) == ReadRegisters(data, off, 4, REG32_COUNT, REG_16)
ReadRegisters32(data, off) == ReadRegisters(data, off, 4, REG32_COUNT, REG_32)

\* RegisterState::HasRegister(reg)
HasRegister(regs, reg) == BitSet(regs.bitmask, reg)

\* RegisterState::GetRegister(reg): [kind, v] with kind "value", "throw" (the
\* type check failed) or "undefined" (values[reg] read outside the vector).
GetRegister(regs, reg, type) ==
    IF regs.type # type THEN [kind |-> "throw", v |-> 0]
    ELSE IF reg \in DOMAIN regs.values THEN [kind |-> "value", v |-> regs.values[reg]]
    ELSE [kind |-> "undefined", v |-> 0]

(***************************************************************************)
(* RAM, queue and cycles.                                                  *)
(***************************************************************************)
RECURSIVE RamLoop(_, _, _, _)
RamLoop(data, count, i, acc) ==
    IF i >= count \/ ~acc.ok THEN acc
    ELSE LET a == Read(data, acc.off, 4) IN
         IF ~a.ok THEN [acc EXCEPT !.ok = FALSE]
         ELSE LET b == Read(data, a.off, 1) IN
              IF ~b.ok THEN [acc EXCEPT !.ok = FALSE, !.off = b.off]
              ELSE RamLoop(data, count, i + 1,
                           [ok |-> TRUE, off |-> b.off,
                            v |-> Append(acc.v, [address |-> a.v, value |-> b.v])])

ReadRam(data, off) ==
    LET c == Read(data, off, 4) IN
    IF ~c.ok THEN [ok |-> FALSE, v |-> <<>>, off |-> c.off]
    ELSE RamLoop(data, c.v, 0, [ok |-> TRUE, v |-> <<>>, off |-> c.off])

\* A queue read that takes one byte more than the length says.
ReadQueueOneMore(data, off) ==
    LET l == Read(data, off, 4) IN
    IF ~l.ok THEN [ok |-> FALSE, v |-> <<>>, off |-> l.off]
    ELSE LET b == ReadBytes(data, l.off, l.v + 1) IN
         [ok |-> b.ok, v |-> IF b.ok THEN b.v ELSE <<>>, off |-> b.off]

\* ReadQueue: u32 length, then that many bytes.
ReadQueue(data, off) ==
    LET l == Read(data, off, 4) IN
    IF ~l.ok THEN [ok |-> FALSE, v |-> <<>>, off |-> l.off]
    ELSE LET b == ReadBytes(data, l.off, l.v) IN
         [ok |-> b.ok, v |-> IF b.ok THEN b.v ELSE <<>>, off |-> b.off]

\* The widths of a cycle record's fields, in the order ReadCycles reads them:
\* pin_bitfield0, address_latch, segment_status, memory_status, io_status,
\* pin_bitfield1, data_bus, bus_status, t_state, queue_op_status, queue_byte_read.
CycleWidths == <<1, 4, 1, 1, 1, 1, 2, 1, 1, 1, 1>>

RECURSIVE ReadFields(_, _, _, _)
\* Successive Read<..>() calls of the given widths; stops at the first that throws.
ReadFields(data, widths, k, acc) ==
    IF k > Len(widths) \/ ~acc.ok THEN acc
    ELSE LET r == Read(data, acc.off, widths[k]) IN
         IF ~r.ok THEN [acc EXCEPT !.ok = FALSE, !.off = r.off]
         ELSE ReadFields(data, widths, k + 1,
                         [ok |-> TRUE, off |-> r.off, v |-> Append(acc.v, r.v)])

CycleOfSwapped(f) ==
    [pin_bitfield0 |-> f[1], address_latch |-> f[2], segment_status |-> f[3],
     memory_status |-> f[4], io_status |-> f[5], pin_bitfield1 |-> f[6],
     data_bus |-> f[7], bus_status |-> f[9], t_state |-> f[8],
     queue_op_status |-> f[10], queue_byte_read |-> f[11]]
CycleOf(f) ==
    [pin_bitfield0 |-> f[1], address_latch |-> f[2], segment_status |-> f[3],
     memory_status |-> f[4], io_status |-> f[5], pin_bitfield1 |-> f[6],
     data_bus |-> f[7], bus_status |-> f[8], t_state |-> f[9],
     queue_op_status |-> f[10], queue_byte_read |-> f[11]]

ReadCycle(data, off) ==
    LET f == ReadFields(data, CycleWidths, 1, [ok |-> TRUE, off |-> off, v |-> <<>>]) IN
    IF f.ok THEN [ok |-> TRUE, off |-> f.off, v |-> CycleOf(f.v)]
    ELSE [ok |-> FALSE, off |-> f.off, v |-> <<>>]

RECURSIVE CycleLoop(_, _, _, _)
CycleLoop(data, count, i, acc) ==
    IF i >= count \/ ~acc.ok THEN acc
    ELSE LET c == ReadCycle(data, acc.off) IN
         IF ~c.ok THEN [acc EXCEPT !.ok = FALSE, !.off = c.off]
         ELSE CycleLoop(data, count, i + 1,
                        [ok |-> TRUE, off |-> c.off, v |-> Append(acc.v, c.v)])

ReadCycles(data, off) ==
    LET c == Read(data, off, 4) IN
    IF ~c.ok THEN [ok |-> FALSE, v |-> <<>>, off |-> c.off]
    ELSE CycleLoop(data, c.v, 0, [ok |-> TRUE, v |-> <<>>, off |-> c.off])

(***************************************************************************)
(* File header decoder: MooHeader and ReadMooHeader.                       *)
(***************************************************************************)
CPU8088 == "CPU8088"
CPU8086 == "CPU8086"
CPUV20  == "CPUV20"
CPUV30  == "CPUV30"
CPU286  == "CPU286"
CPU386E == "CPU386E"

\* MooHeader{}: cpu_type has no initializer.
DefaultMooHeader ==
    [version_major |-> 0, version_minor |-> 0, reserved |-> <<0, 0>>,
     test_count |-> 0, cpu_name |-> <<>>, cpu_type |-> Indeterminate]

\* MooHeader::GetVersionU16
GetVersionU16(h) == h.version_major * 256 + h.version_minor

\* The versions ReadMooHeader goes on with: 0x0100 and 0x0101.
SupportedVersionAny(v) == TRUE
SupportedVersion(v) == v = 256 \/ v = 257

\* A chain without the branch for "C286    ".
CpuTypeOfNameNoC286(name) ==
    IF name = Name8(Id8088) \/ name = Name8(Id88) THEN CPU8088
    ELSE IF name = Name8(Id8086) THEN CPU8086
    ELSE IF name = Name8(IdV20) THEN CPUV20
    ELSE IF name = Name8(IdV30) THEN CPUV30
    ELSE IF name = Name8(Id286) THEN CPU286
    ELSE IF name = Name8(Id386E) THEN CPU386E
    ELSE "none"

\* The if / else-if chain over cpu_name; "none" for the final else.
CpuTypeOfName(name) ==
    IF name = Name8(Id8088) \/ name = Name8(Id88) THEN CPU8088
    ELSE IF name = Name8(Id8086) THEN CPU8086
    ELSE IF name = Name8(IdV20) THEN CPUV20
    ELSE IF name = Name8(IdV30) THEN CPUV30
    ELSE IF name = Name8(Id286) THEN CPU286
    ELSE IF name = Name8(IdC286) THEN CPU286
    ELSE IF name = Name8(Id386E) THEN CPU386E
    ELSE "none"

\* Result: [err, hdr, off]: the exception thrown ("none": returned), mooheader_
\* as the call leaves it (the members are assigned one by one), the cursor.
ReadMooHeader(h, data, off) ==
    LET r1 == Read(data, off, 1) IN
    IF ~r1.ok THEN [err |-> TruncatedInput, hdr |-> h, off |-> r1.off] ELSE
    LET h1 == [h EXCEPT !.version_major = r1.v]
        r2 == Read(data, r1.off, 1) IN
    IF ~r2.ok THEN [err |-> TruncatedInput, hdr |-> h1, off |-> r2.off] ELSE
    LET h2 == [h1 EXCEPT !.version_minor = r2.v]
        r3 == ReadBytes(data, r2.off, 2) IN
    IF ~r3.ok THEN [err |-> TruncatedInput, hdr |-> h2, off |-> r3.off] ELSE
    LET h3 == [h2 EXCEPT !.reserved = r3.v]
        r4 == Read(data, r3.off, 4) IN
    IF ~r4.ok THEN [err |-> TruncatedInput, hdr |-> h3, off |-> r4.off] ELSE
    LET h4 == [h3 EXCEPT !.test_count = r4.v, !.cpu_name = Spaces(8)] IN
    IF ~SupportedVersion(GetVersionU16(h4))
    THEN [err |-> UnsupportedVersion, hdr |-> h4, off |-> r4.off] ELSE
    LET r5 == ReadBytes(data, r4.off, 4) IN
    IF ~r5.ok THEN [err |-> TruncatedInput, hdr |-> h4, off |-> r5.off] ELSE
    LET h5 == [h4 EXCEPT !.cpu_name = r5.v \o Spaces(4)]
        t  == CpuTypeOfName(h5.cpu_name) IN
    IF t = "none" THEN [err |-> UnsupportedCpu, hdr |-> h5, off |-> r5.off]
    ELSE [err |-> "none", hdr |-> [h5 EXCEPT !.cpu_type = t], off |-> r5.off]

(***************************************************************************)
(* Test and CpuState records.                                              *)
(***************************************************************************)
\* CpuState{}
DefaultCpuState ==
    [regs |-> DefaultRegisterState, masks |-> DefaultRegisterState,
     ram |-> <<>>, queue |-> <<>>, has_queue |-> FALSE]

\* Test{}: exception has no initializer.
DefaultTest ==
    [index |-> 0, name |-> <<>>, bytes |-> <<>>,
     init_state |-> DefaultCpuState, final_state |-> DefaultCpuState,
     cycles |-> <<>>, has_exception |-> FALSE,
     exception |-> [number |-> IndetNum, flag_addr |-> IndetNum],
     has_hash |-> FALSE, hash |-> [k \in 1..HashLen |-> 0]]

\* The final else of the tag chains: an unrecognised chunk changes nothing and
\* reads nothing.  Result: [ok, off].
SkipChunkThrows(off) == [ok |-> FALSE, off |-> off]
SkipChunk(off) == [ok |-> TRUE, off |-> off]

\* One subchunk of INIT / FINA, by its tag (the if / else-if chain of
\* ReadCpuState).  Result: [ok, state, off, oob].
ReadStateChunk(state, type, data, off) ==
    IF type = TagREGS THEN
        LET r == ReadRegisters16(data, off) IN
        [ok |-> r.ok, off |-> r.off, oob |-> r.oob, state |-> [state EXCEPT !.regs = r.v]]
    ELSE IF type = TagRG32 THEN
        LET r == ReadRegisters32(data, off) IN
        [ok |-> r.ok, off |-> r.off, oob |-> r.oob, state |-> [state EXCEPT !.regs = r.v]]
    ELSE IF type = TagRMSK THEN
        LET r == ReadRegisters16(data, off) IN
        [ok |-> r.ok, off |-> r.off, oob |-> r.oob, state |-> [state EXCEPT !.masks = r.v]]
    ELSE IF type = TagRM32 THEN
        LET r == ReadRegisters32(data, off) IN
        [ok |-> r.ok, off |-> r.off, oob |-> r.oob, state |-> [state EXCEPT !.masks = r.v]]
    ELSE IF type = TagRAM THEN
        LET r == ReadRam(data, off) IN
        [ok |-> r.ok, off |-> r.off, oob |-> FALSE, state |-> [state EXCEPT !.ram = r.v]]
    ELSE IF type = TagQUEU THEN
        LET r == ReadQueue(data, off) IN
        [ok |-> r.ok, off |-> r.off, oob |-> FALSE,
         state |-> [state EXCEPT !.queue = r.v, !.has_queue = TRUE]]
    ELSE LET r == SkipChunk(off) IN
         [ok |-> r.ok, off |-> r.off, oob |-> FALSE, state |-> state]

\* One subchunk of TEST other than INIT / FINA, by its tag (the if / else-if
\* chain of ReadTest).  Result: [ok, test, off].
ReadTestChunk(test, type, data, off) ==
    IF type = TagNAME \/ type = TagBYTS THEN
        LET n == Read(data, off, 4) IN
        IF ~n.ok THEN [ok |-> FALSE, off |-> n.off, test |-> test] ELSE
        LET b == ReadBytes(data, n.off, n.v) IN
        IF ~b.ok THEN [ok |-> FALSE, off |-> b.off, test |-> test]
        ELSE [ok |-> TRUE, off |-> b.off,
              test |-> IF type = TagNAME THEN [test EXCEPT !.name = b.v]
                       ELSE [test EXCEPT !.bytes = b.v]]
    ELSE IF type = TagCYCL THEN
        LET r == ReadCycles(data, off) IN
        [ok |-> r.ok, off |-> r.off, test |-> [test EXCEPT !.cycles = r.v]]
    ELSE IF type = TagEXCP THEN
        LET n == Read(data, off, 1) IN
        IF ~n.ok THEN [ok |-> FALSE, off |-> n.off, test |-> test] ELSE
        LET a == Read(data, n.off, 4) IN
        IF ~a.ok THEN [ok |-> FALSE, off |-> a.off, test |-> test]
        ELSE [ok |-> TRUE, off |-> a.off,
              test |-> [test EXCEPT !.exception = [number |-> n.v, flag_addr |-> a.v],
                                    !.has_exception = TRUE]]
    ELSE IF type = TagHASH THEN
        LET b == ReadBytes(data, off, HashLen) IN
        IF ~b.ok THEN [ok |-> FALSE, off |-> b.off, test |-> test]
        ELSE [ok |-> TRUE, off |-> b.off,
              test |-> [test EXCEPT !.hash = b.v, !.has_hash = TRUE]]
    ELSE \* GMET and unknown chunks are skipped
        LET r == SkipChunk(off) IN [ok |-> r.ok, off |-> r.off, test |-> test]

RECURSIVE BitAnd(_, _)
\* a & b
BitAnd(a, b) ==
    IF a = 0 \/ b = 0 THEN 0
    ELSE (a % 2) * (b % 2) + 2 * BitAnd(a \div 2, b \div 2)

\* Test::GetInitialRegister(reg), the REG16 overload for type REG_16 and the
\* REG32 overload for REG_32.  Result as GetRegister.
GetInitialRegister(test, reg, type) == GetRegister(test.init_state.regs, reg, type)

\* Test::GetFinalRegister(reg, masked)
GetFinalRegisterNoFallback(test, reg, type, masked) ==
    GetRegister(test.final_state.regs, reg, type)
GetFinalRegister(test, reg, type, masked) ==
    IF HasRegister(test.final_state.regs, reg) THEN
        LET g == GetRegister(test.final_state.regs, reg, type) IN
        IF g.kind # "value" THEN g
        ELSE IF masked /\ HasRegister(test.final_state.masks, reg) THEN
            LET m == GetRegister(test.final_state.masks, reg, type) IN
            IF m.kind # "value" THEN m
            ELSE [kind |-> "value", v |-> BitAnd(g.v, m.v)]
        ELSE g
    ELSE GetInitialRegister(test, reg, type)

\* An index that keeps the first position of a hash.
MapPutFirst(m, hash, i) ==
    [h \in (DOMAIN m) \cup {hash} |-> IF h \in DOMAIN m THEN m[h] ELSE i]

\* test_map_[hash] = i
MapPut(m, hash, i) ==
    [h \in (DOMAIN m) \cup {hash} |-> IF h = hash THEN i ELSE m[h]]

(***************************************************************************)
(* Input files.  A file is built from a tree of chunks the way the format  *)
(* document lays it out: tag, u32 length, payload; the payload of a TEST,  *)
(* INIT or FINA chunk is a prefix (the TEST index) and its subchunks.      *)
(***************************************************************************)
RECURSIVE LE(_, _)
\* the `width` little-endian bytes of v
LE(v, width) == IF width = 0 THEN <<>> ELSE <<v % 256>> \o LE(v \div 256, width - 1)

Leaf(tag, payload) == [tag |-> tag, pre |-> payload, kids |-> <<>>]
Node(tag, pre, kids) == [tag |-> tag, pre |-> pre, kids |-> kids]

RECURSIVE Ser(_)
RECURSIVE SerAll(_)
Ser(c) == LET p == c.pre \o SerAll(c.kids) IN c.tag \o LE(Len(p), 4) \o p
SerAll(cs) == IF cs = <<>> THEN <<>> ELSE Ser(Head(cs)) \o SerAll(Tail(cs))

RECURSIVE LEAll(_, _)
LEAll(vals, width) ==
    IF vals = <<>> THEN <<>> ELSE LE(Head(vals), width) \o LEAll(Tail(vals), width)

\* A REGS / RMSK (width 2) or RG32 / RM32 (width 4) chunk.
RegsChunk(tag, width, bitmask, vals) == Leaf(tag, LE(bitmask, width) \o LEAll(vals, width))

\* The MOO header payload, with `extra` trailing bytes a later version may add.
HeaderPayload(major, minor, count, cpu, extra) ==
    <<major, minor, 0, 0>> \o LE(count, 4) \o cpu \o extra

\* A file: the first chunk (tag `first`, payload `hdr`) and the top-level chunks.
FileBytes(f) == Ser(Leaf(f.first, f.hdr)) \o SerAll(f.top)

Hash1 == [k \in 1..HashLen |-> k]
Hash2 == [k \in 1..HashLen |-> 100 + k]
Hash9 == [k \in 1..HashLen |-> 9]

\* "MOV AX, BX"
NameMov == <<77, 79, 86, 32, 65, 88, 44, 32, 66, 88>>
\* "NOP"
NameNop == <<78, 79, 80>>

\* The scenario of the specification: INIT ax = 0x0000, bx = 0x1234; FINA selects
\* only ax = 0x1234; no cycles, no exception, a hash.
TestMov ==
    Node(TagTEST, LE(0, 4),
         << Leaf(TagNAME, LE(10, 4) \o NameMov),
            Leaf(TagBYTS, LE(2, 4) \o <<137, 216>>),
            Node(TagINIT, <<>>, << RegsChunk(TagREGS, 2, 3, <<0, 4660>>) >>),
            Node(TagFINA, <<>>, << RegsChunk(TagREGS, 2, 1, <<4660>>) >>),
            Leaf(TagCYCL, LE(0, 4)),
            Leaf(TagHASH, Hash1) >>)

\* A 16-bit test with every kind of subchunk: masks, RAM, queue, two cycles, an
\* exception, generator metadata.
TestNop ==
    Node(TagTEST, LE(1, 4),
         << Leaf(TagNAME, LE(3, 4) \o NameNop),
            Leaf(TagBYTS, LE(1, 4) \o <<144>>),
            Node(TagINIT, <<>>,
                 << RegsChunk(TagREGS, 2, 8195, <<17, 34, 2>>),
                    Leaf(TagRAM, LE(1, 4) \o LE(1024, 4) \o <<144>>),
                    Leaf(TagQUEU, LE(2, 4) \o <<144, 144>>) >>),
            Node(TagFINA, <<>>,
                 << RegsChunk(TagREGS, 2, 8193, <<51, 2263>>),
                    Leaf(TagQUEU, LE(0, 4)),
                    RegsChunk(TagRMSK, 2, 8192, <<4053>>) >>),
            Leaf(TagCYCL, LE(2, 4) \o <<1>> \o LE(1024, 4) \o <<3, 2, 0, 1>> \o LE(144, 2)
                          \o <<6, 1, 0, 7>>
                          \o <<12>> \o LE(1025, 4) \o <<4, 5, 6, 0>> \o LE(37008, 2)
                          \o <<7, 2, 1, 144>>),
            Leaf(TagEXCP, <<13>> \o LE(2046, 4)),
            Leaf(TagGMET, <<1, 2>>),
            Leaf(TagHASH, Hash2) >>)

\* A 32-bit test: RG32 / RM32.
Test386 ==
    Node(TagTEST, LE(0, 4),
         << Leaf(TagNAME, LE(3, 4) \o NameNop),
            Node(TagINIT, <<>>, << RegsChunk(TagRG32, 4, 131084, <<70000, 80000, 514>>) >>),
            Node(TagFINA, <<>>,
                 << RegsChunk(TagRG32, 4, 131076, <<70001, 2263>>),
                    RegsChunk(TagRM32, 4, 131072, <<4053>>) >>),
            Leaf(TagHASH, Hash2) >>)

\* A small test whose register subchunks have the given tag and width.
TestSmall(tag, width) ==
    Node(TagTEST, LE(0, 4),
         << Node(TagINIT, <<>>, << RegsChunk(tag, width, 3, <<7, 4660>>) >>),
            Node(TagFINA, <<>>, << RegsChunk(tag, width, 1, <<8>>) >>),
            Leaf(TagHASH, Hash1) >>)

\* A test whose register bitmasks select bits past the register table
\* (16-bit: bits 14 and 15; 32-bit: bits 20 and 30).
TestWide(tag, width, bitmask) ==
    Node(TagTEST, LE(0, 4),
         << Node(TagINIT, <<>>, << RegsChunk(tag, width, bitmask, <<7, 8, 9>>) >>),
            Leaf(TagHASH, Hash1) >>)

\* A test whose NAME chunk declares 4 bytes of payload while its length field
\* says 14: the name read runs over the whole BYTS chunk that follows.
TestOver ==
    Node(TagTEST, LE(0, 4),
         << Leaf(TagNAME, LE(14, 4)),
            Leaf(TagBYTS, LE(2, 4) \o <<137, 216>>),
            Node(TagINIT, <<>>, << RegsChunk(TagREGS, 2, 3, <<0, 4660>>) >>),
            Leaf(TagHASH, Hash1) >>)

\* A test with nothing but its index and a trailing metadata chunk: no HASH
\* chunk, no INIT and no FINA chunk.
TestBare ==
    Node(TagTEST, LE(0, 4), << Leaf(TagGMET, <<1, 2>>) >>)

File(first, major, minor, count, cpu, extra, top) ==
    [first |-> first, hdr |-> HeaderPayload(major, minor, count, cpu, extra), top |-> top]

Versions == {<<1, 0>>, <<1, 1>>, <<0, 1>>, <<1, 2>>, <<2, 0>>}
CpuIds == {Id8088, Id88, Id8086, IdV20, IdV30, Id186, Id286, IdC286, Id386E, IdZ80, Idv20}
FirstTags == {TagMOO, TagTEST, TagZZZZ, TagMOO0}

(* The base files.  `cut`: which proper prefixes of the file are inputs too *)
(* ("all", "head": those ending in the MOO chunk, "none"); `ins`: whether  *)
(* the file with an unknown chunk inserted is an input too.                *)
\* the chunk header and the 12 bytes of the MOO payload
HeadLen == 8 + 12
BaseSet ==
    \* the scenario file
    {[id |-> <<"scenario">>, cut |-> "all", ins |-> TRUE,
      file |-> File(TagMOO, 1, 1, 1, Id8086, <<>>, <<TestMov>>)]}
    \* two tests between stray top-level chunks, a longer header, each test_count
    \cup {[id |-> <<"two", c>>, cut |-> IF c = MaxCount THEN "all" ELSE "none", ins |-> (c = MaxCount),
           file |-> File(TagMOO, 1, 1, c, Id8088, <<0, 7>>,
                         << RegsChunk(TagRMSK, 2, 8193, <<4080, 4053>>), TestMov,
                            Leaf(TagMETA, <<1, 1, 0>>), TestNop >>)] : c \in 0..MaxCount}
    \* a 32-bit file, version 1.0
    \cup {[id |-> <<"386">>, cut |-> "all", ins |-> TRUE,
           file |-> File(TagMOO, 1, 0, 1, Id386E, <<>>, <<Test386>>)]}
    \* every version with every CPU identifier, 16- and 32-bit register chunks
    \cup {[id |-> <<"cpu", v, id, t[1]>>,
           cut |-> IF id = Id8086 /\ t[1] = TagREGS THEN "head" ELSE "none", ins |-> FALSE,
           file |-> File(TagMOO, v[1], v[2], 1, id, <<>>, <<TestSmall(t[1], t[2])>>)]
          : v \in Versions, id \in CpuIds, t \in {<<TagREGS, 2>>, <<TagRG32, 4>>}}
    \* a first chunk that is not the MOO chunk
    \cup {[id |-> <<"first", tg>>, cut |-> "head", ins |-> FALSE,
           file |-> File(tg, 1, 1, 1, Id8086, <<>>, <<TestSmall(TagREGS, 2)>>)]
          : tg \in FirstTags \ {TagMOO}}
    \* three tests, the first and the last with the same hash, a stray chunk
    \* between the first two
    \cup {[id |-> <<"dup">>, cut |-> "none", ins |-> FALSE,
           file |-> File(TagMOO, 1, 1, 3, Id8086, <<>>,
                         <<TestMov, Leaf(TagMETA, <<1, 1, 0>>), TestNop,
                           TestSmall(TagREGS, 2)>>)]}
    \* a payload decoder that reads past its chunk
    \cup {[id |-> <<"over">>, cut |-> "none", ins |-> FALSE,
           file |-> File(TagMOO, 1, 1, 1, Id8086, <<>>, <<TestOver>>)]}
    \* register bitmasks with bits past the register table
    \cup {[id |-> <<"wide", 16>>, cut |-> "none", ins |-> FALSE,
           file |-> File(TagMOO, 1, 1, 1, Id8086, <<>>, <<TestWide(TagREGS, 2, 49153)>>)],
          [id |-> <<"wide", 32>>, cut |-> "none", ins |-> FALSE,
           file |-> File(TagMOO, 1, 1, 1, Id386E, <<>>,
                         <<TestWide(TagRG32, 4, 1074790401)>>)]}
    \* a test without a HASH chunk and without register chunks
    \cup {[id |-> <<"bare">>, cut |-> "all", ins |-> FALSE,
           file |-> File(TagMOO, 1, 1, 1, Id8086, <<>>, <<TestBare>>)]}

BaseIds == {b.id : b \in BaseSet}
Base(id) == CHOOSE b \in BaseSet : b.id = id

\* The synthetic unknown chunk: an unrecognized tag over n well-formed HASH chunks.
Junk(n) == Leaf(TagZZZZ, SerAll([k \in 1..n |-> Leaf(TagHASH, Hash9)]))

InsertAt(seq, k, x) == SubSeq(seq, 1, k - 1) \o <<x>> \o SubSeq(seq, k, Len(seq))

\* The sibling positions of a file: <<k>> before top-level chunk k (a TEST chunk
\* at or after it), <<k, j>> inside TEST k before subchunk j (or last), <<k, j, m>>
\* inside the INIT / FINA subchunk j of TEST k.
Paths(f) ==
    LET tests == {k \in DOMAIN f.top : f.top[k].tag = TagTEST} IN
    {<<k>> : k \in {q \in DOMAIN f.top : \E t \in tests : q <= t}}
    \cup UNION {{<<k, j>> : j \in 1..(Len(f.top[k].kids) + 1)} : k \in tests}
    \cup UNION {UNION {{<<k, j, m>> : m \in 1..(Len(f.top[k].kids[j].kids) + 1)}
                       : j \in {q \in DOMAIN f.top[k].kids :
                                   f.top[k].kids[q].tag \in {TagINIT, TagFINA}}}
                : k \in tests}

InsertPath(f, path, u) ==
    IF Len(path) = 1 THEN [f EXCEPT !.top = InsertAt(@, path[1], u)]
    ELSE IF Len(path) = 2
    THEN [f EXCEPT !.top[path[1]].kids = InsertAt(@, path[2], u)]
    ELSE [f EXCEPT !.top[path[1]].kids[path[2]].kids = InsertAt(@, path[3], u)]

FullBytes(id) == FileBytes(Base(id).file)
CutBytes(id) ==
    LET b == FullBytes(id) IN
    {SubSeq(b, 1, n) : n \in 0..(IF Base(id).cut = "head" THEN HeadLen ELSE Len(b) - 1)}
InsBytes(id) ==
    IF Base(id).ins
    THEN {FileBytes(InsertPath(Base(id).file, p, Junk(n)))
            : p \in Paths(Base(id).file), n \in 0..MaxJunk}
    ELSE {}

\* The files by base and kind, computed once.
Files == [id \in BaseIds |->
            [full |-> {FullBytes(id)},
             cut  |-> IF Base(id).cut # "none" THEN CutBytes(id) ELSE {},
             ins  |-> InsBytes(id)]]

(***************************************************************************)
(* The Reader as a state machine.                                          *)
(***************************************************************************)
NoFrame ==
    [i |-> 0, test_header |-> NoChunk, test |-> DefaultTest, chunk |-> NoChunk,
     state |-> DefaultCpuState, sub |-> NoChunk]

\* What the Reader exposes: the test sequence, the header, the index, the revocations.
Exposed ==
    [tests |-> tests_, header |-> mooheader_, map |-> test_map_,
     revoked |-> revocation_list_]

NoHist ==
    [nloads |-> 0, base |-> <<>>, kind |-> "none", prevKind |-> "none",
     prevErr |-> "none", mark |-> 0,
     pre |-> [tests |-> <<>>, header |-> DefaultMooHeader, map |-> <<>>, revoked |-> {}],
     ev |-> "none", done |-> NoChunk, left |-> 0,
     rcalls |-> 0, cur |-> <<>>, loaded |-> {}, rthrown |-> FALSE]

\* Reader() = default
Init ==
    /\ data_ = <<>>
    /\ offset_ = 0
    /\ mooheader_ = DefaultMooHeader
    /\ tests_ = <<>>
    /\ test_map_ = <<>>
    /\ revocation_list_ = {}
    /\ pc = "idle"
    /\ err = "none"
    /\ frame = NoFrame
    /\ ret = <<>>
    /\ hist = NoHist

\* An exception leaves the running call: the locals are gone, the members stay
\* as they are.
Throw(off, kind) ==
    /\ offset_' = off
    /\ err' = kind
    /\ pc' = "idle"
    /\ frame' = NoFrame
    /\ hist' = [hist EXCEPT !.ev = "thrown", !.done = NoChunk]

\* A write outside a vector corrupted the heap and the process died.
Crash ==
    /\ err' = "undefined"
    /\ pc' = "crashed"
    /\ frame' = NoFrame
    /\ hist' = [hist EXCEPT !.ev = "crashed", !.done = NoChunk]
    /\ UNCHANGED offset_

\* The kinds of file the next AddFromFile call may be given: any base file or a
\* prefix of one first; later the same base file again and, right after it was
\* loaded whole, its prefixes and its variants with an unknown chunk.
InputKinds ==
    IF hist.nloads = 0 THEN {"full", "cut"}
    ELSE IF hist.kind = "full" /\ hist.prevKind \in {"none", "full"}
    THEN {"full", "cut", "ins"}
    ELSE {"full"}
InputIds == IF hist.nloads = 0 THEN BaseIds ELSE {hist.base}

\* AddFromFile: ReadRawFile, then Analyze up to the end of the MOO chunk.
AddFromFile(id, kind, bytes) ==
    /\ pc = "idle"
    /\ hist.nloads < MaxLoads
    /\ data_' = bytes
    /\ ret' = <<>>
    /\ UNCHANGED <<tests_, test_map_, revocation_list_>>
    /\ LET h0 == [hist EXCEPT !.nloads = @ + 1, !.base = id, !.kind = kind,
                              !.prevKind = hist.kind,
                              !.prevErr = IF hist.kind = "none" THEN "none" ELSE err,
                              !.mark = Len(hist.pre.tests), !.pre = Exposed]
           first_chunk_header == ReadChunkHeader(bytes, 0)
       IN
       IF ~first_chunk_header.ok THEN
            /\ offset_' = first_chunk_header.off /\ err' = TruncatedInput
            /\ pc' = "idle" /\ frame' = NoFrame /\ mooheader_' = mooheader_
            /\ hist' = [h0 EXCEPT !.ev = "thrown", !.done = NoChunk]
       ELSE IF ~IsMooTag(first_chunk_header.v.type) THEN
            /\ offset_' = first_chunk_header.off /\ err' = InvalidContainer
            /\ pc' = "idle" /\ frame' = NoFrame /\ mooheader_' = mooheader_
            /\ hist' = [h0 EXCEPT !.ev = "thrown", !.done = NoChunk]
       ELSE LET h == ReadMooHeader(mooheader_, bytes, first_chunk_header.off) IN
            /\ mooheader_' = h.hdr
            /\ IF h.err # "none" THEN
                    /\ offset_' = h.off /\ err' = h.err
                    /\ pc' = "idle" /\ frame' = NoFrame
                    /\ hist' = [h0 EXCEPT !.ev = "thrown", !.done = NoChunk]
               ELSE /\ offset_' = ResetTo(first_chunk_header.v, h.off)
                    /\ err' = "none"
                    /\ pc' = "tests"
                    /\ frame' = NoFrame
                    /\ hist' = [h0 EXCEPT !.ev = "header_done",
                                          !.done = first_chunk_header.v,
                                          !.left = h.off]

\* ReadTest up to the TEST index: one chunk header; a chunk that is not a TEST
\* chunk is skipped by its length and the next header is read by ReadTestSkip.
TestHeaderStep ==
    /\ UNCHANGED <<data_, mooheader_, tests_, test_map_, revocation_list_, ret>>
    /\ LET test_header == ReadChunkHeader(data_, offset_) IN
       IF ~test_header.ok THEN Throw(test_header.off, TruncatedInput)
       ELSE IF test_header.v.type # TagTEST THEN
            /\ offset_' = ResetTo(test_header.v, test_header.off)
            /\ pc' = "skip"
            /\ frame' = [frame EXCEPT !.test_header = test_header.v]
            /\ hist' = [hist EXCEPT !.ev = "skipped", !.done = test_header.v,
                                     !.left = test_header.off]
            /\ UNCHANGED err
       ELSE LET index == Read(data_, test_header.off, 4) IN
            IF ~index.ok THEN Throw(index.off, TruncatedInput)
            ELSE /\ offset_' = index.off
                 /\ pc' = "test_body"
                 /\ frame' = [frame EXCEPT !.test_header = test_header.v,
                                           !.test = [DefaultTest EXCEPT !.index = index.v]]
                 /\ hist' = [hist EXCEPT !.ev = "index_read", !.done = NoChunk]
                 /\ UNCHANGED err

\* Analyze: the next iteration of "for (i = 0; i < test_count; i++)" calls ReadTest.
ReadTest ==
    /\ pc = "tests"
    /\ frame.i < mooheader_.test_count
    /\ TestHeaderStep

ReadTestSkip ==
    /\ pc = "skip"
    /\ TestHeaderStep

\* Analyze returns, and AddFromFile with it.
AnalyzeReturn ==
    /\ pc = "tests"
    /\ ~(frame.i < mooheader_.test_count)
    /\ pc' = "idle"
    /\ err' = "none"
    /\ frame' = NoFrame
    /\ hist' = [hist EXCEPT !.ev = "returned", !.done = NoChunk]
    /\ UNCHANGED <<data_, offset_, mooheader_, tests_, test_map_, revocation_list_, ret>>

\* ReadTest: one iteration of "while (offset_ < test_header.data_end)".
ReadTestSubchunk ==
    /\ pc = "test_body"
    /\ offset_ < frame.test_header.data_end
    /\ UNCHANGED <<data_, mooheader_, tests_, test_map_, revocation_list_, ret>>
    /\ LET chunk == ReadChunkHeader(data_, offset_) IN
       IF ~chunk.ok THEN Throw(chunk.off, TruncatedInput)
       ELSE IF chunk.v.type \in {TagINIT, TagFINA} THEN
            \* ReadCpuState(chunk.data_end) is entered
            /\ offset_' = chunk.off
            /\ pc' = "state"
            /\ frame' = [frame EXCEPT !.chunk = chunk.v, !.state = DefaultCpuState]
            /\ hist' = [hist EXCEPT !.ev = "state_entered", !.done = NoChunk]
            /\ UNCHANGED err
       ELSE LET t == ReadTestChunk(frame.test, chunk.v.type, data_, chunk.off) IN
            IF ~t.ok THEN Throw(t.off, TruncatedInput)
            ELSE /\ offset_' = ResetTo(chunk.v, t.off)
                 /\ frame' = [frame EXCEPT !.chunk = chunk.v, !.test = t.test]
                 /\ hist' = [hist EXCEPT !.ev = "subchunk_done", !.done = chunk.v,
                                          !.left = t.off]
                 /\ UNCHANGED <<pc, err>>

\* ReadTest returns; Analyze appends the test and indexes its hash.
ReadTestReturn ==
    /\ pc = "test_body"
    /\ ~(offset_ < frame.test_header.data_end)
    /\ offset_' = ResetTo(frame.test_header, offset_)
    /\ tests_' = Append(tests_, frame.test)
    /\ test_map_' = MapPut(test_map_, frame.test.hash, frame.i)
    /\ pc' = "tests"
    /\ frame' = [NoFrame EXCEPT !.i = frame.i + 1]
    /\ hist' = [hist EXCEPT !.ev = "test_done", !.done = frame.test_header,
                             !.left = offset_]
    /\ UNCHANGED <<data_, mooheader_, revocation_list_, err, ret>>

\* ReadCpuState: one iteration of "while (offset_ < end_offset)".
ReadCpuStateSubchunk ==
    /\ pc = "state"
    /\ offset_ < frame.chunk.data_end
    /\ UNCHANGED <<data_, mooheader_, tests_, test_map_, revocation_list_, ret>>
    /\ LET chunk == ReadChunkHeader(data_, offset_) IN
       IF ~chunk.ok THEN Throw(chunk.off, TruncatedInput)
       ELSE LET s == ReadStateChunk(frame.state, chunk.v.type, data_, chunk.off) IN
            \/ /\ s.oob
               /\ Crash
            \/ /\ ~s.ok
               /\ Throw(s.off, TruncatedInput)
            \/ /\ s.ok
               /\ offset_' = ResetTo(chunk.v, s.off)
               /\ frame' = [frame EXCEPT !.sub = chunk.v, !.state = s.state]
               /\ hist' = [hist EXCEPT !.ev = "state_subchunk_done", !.done = chunk.v,
                                        !.left = s.off]
               /\ UNCHANGED <<pc, err>>

\* ReadCpuState returns into ReadTest, which resets to the INIT / FINA boundary.
ReadCpuStateReturn ==
    /\ pc = "state"
    /\ ~(offset_ < frame.chunk.data_end)
    /\ offset_' = ResetTo(frame.chunk, offset_)
    /\ pc' = "test_body"
    /\ frame' = [frame EXCEPT
                    !.test = IF frame.chunk.type = TagINIT
                             THEN [@ EXCEPT !.init_state = frame.state]
                             ELSE [@ EXCEPT !.final_state = frame.state],
                    !.state = DefaultCpuState, !.sub = NoChunk]
    /\ hist' = [hist EXCEPT !.ev = "subchunk_done", !.done = frame.chunk,
                             !.left = offset_]
    /\ UNCHANGED <<data_, mooheader_, tests_, test_map_, revocation_list_, err, ret>>

\* The file a Reader that has decoded the scenario file is given next, when it
\* is given a different one.
OtherFile == <<"dup">>

Next ==
    \/ \E id \in InputIds : \E kind \in InputKinds : \E bytes \in Files[id][kind] :
          AddFromFile(id, kind, bytes)
    \/ /\ hist.base = <<"scenario">> /\ hist.kind = "full" /\ err = "none"
       /\ AddFromFile(OtherFile, "other", FullBytes(OtherFile))
    \/ ReadTest
    \/ ReadTestSkip
    \/ AnalyzeReturn
    \/ ReadTestSubchunk
    \/ ReadTestReturn
    \/ ReadCpuStateSubchunk
    \/ ReadCpuStateReturn

Spec == Init /\ [][Next]_vars

(***************************************************************************)
(* The byte cursor on its own: Read<DATA>() and ReadBytes() called at any  *)
(* cursor position of any buffer.  `ret` holds the last call: the          *)
(* operation, the byte count asked for, the cursor before it, its result.  *)
(***************************************************************************)
\* The bytes the buffers are prefixes of.
SampleBytes == <<52, 18, 205, 127, 0, 1, 86, 120>>

\* The cursor may stand past the end: offset_ = chunk.data_end is assigned from a
\* declared length, whatever the buffer holds.
InitRead ==
    /\ data_ \in {SubSeq(SampleBytes, 1, n) : n \in 0..Len(SampleBytes)}
    /\ offset_ \in 0..(Len(data_) + MaxPast)
    /\ mooheader_ = DefaultMooHeader
    /\ tests_ = <<>>
    /\ test_map_ = <<>>
    /\ revocation_list_ = {}
    /\ pc = "read"
    /\ err = "none"
    /\ frame = NoFrame
    /\ ret = <<>>
    /\ hist = NoHist

Returned(op, n, r) ==
    /\ ret' = [op |-> op, n |-> n, before |-> offset_, res |-> r]
    /\ offset_' = r.off
    /\ err' = IF r.ok THEN "none" ELSE TruncatedInput
    /\ UNCHANGED <<data_, mooheader_, tests_, test_map_, revocation_list_, pc, frame, hist>>

\* Read<uint8_t>(), Read<uint16_t>(), Read<uint32_t>()
DoRead(width) ==
    /\ pc = "read"
    /\ Returned("Read", width, Read(data_, offset_, width))

\* ReadBytes(dest, count)
DoReadBytes(count) ==
    /\ pc = "read"
    /\ Returned("ReadBytes", count, ReadBytes(data_, offset_, count))

NextRead ==
    \/ \E width \in {1, 2, 4} : DoRead(width)
    \/ \E count \in 0..MaxBytes : DoReadBytes(count)

SpecRead == InitRead /\ [][NextRead]_vars

(***************************************************************************)
(* Queries and the revocation list.                                        *)
(***************************************************************************)
\* Reader::IsRevoked(test)
IsRevoked(test) == test.hash \in revocation_list_

\* Reader::GetRevokedCount(): static_cast<bool>(revocation_list_.size()), which
\* a caller that prints or counts it sees as 1 or 0.
GetRevokedCount == IF Cardinality(revocation_list_) # 0 THEN 1 ELSE 0

\* Reader::HasTest(hash)
HasTest(hash) == hash \in DOMAIN test_map_

\* Reader::GetTest(hash): tests_[test_map_.at(hash)].  Result [kind, v]: "value",
\* "throw" (std::out_of_range from at) or "undefined" (an index past tests_).
GetTest(hash) ==
    IF hash \notin DOMAIN test_map_ THEN [kind |-> "throw", v |-> DefaultTest]
    ELSE IF test_map_[hash] + 1 \in DOMAIN tests_
         THEN [kind |-> "value", v |-> tests_[test_map_[hash] + 1]]
         ELSE [kind |-> "undefined", v |-> DefaultTest]

FailedToOpen == "Failed to open file"
InvalidRevocationValue == "Invalid value in revocation list."

\* A conversion that forgets the + 10 of the upper-case digits.
HexToIntUpperLow(c) ==
    IF c >= 48 /\ c <= 57 THEN [ok |-> TRUE, v |-> c - 48]
    ELSE IF c >= 65 /\ c <= 70 THEN [ok |-> TRUE, v |-> c - 65]
    ELSE IF c >= 97 /\ c <= 102 THEN [ok |-> TRUE, v |-> c - 97 + 10]
    ELSE [ok |-> FALSE, v |-> 0]

\* HexToInt(c): [ok, v]; not ok: it throws.
HexToInt(c) ==
    IF c >= 48 /\ c <= 57 THEN [ok |-> TRUE, v |-> c - 48]
    ELSE IF c >= 65 /\ c <= 70 THEN [ok |-> TRUE, v |-> c - 65 + 10]
    ELSE IF c >= 97 /\ c <= 102 THEN [ok |-> TRUE, v |-> c - 97 + 10]
    ELSE [ok |-> FALSE, v |-> 0]

\* line.empty() || line[0] == '#' || line.length() != 40
SkipLineShorter(line) == line = <<>> \/ line[1] = 35 \/ Len(line) < 40
SkipLine(line) == line = <<>> \/ line[1] = 35 \/ Len(line) # 40

\* hash[i] = HexToInt(line[2 * i]) * 0x10 + HexToInt(line[2 * i + 1]), i < 20,
\* as uint8_t.  Result [ok, v]; not ok: HexToInt threw.
HexToHash(line) ==
    IF \E k \in 1..(2 * HashLen) : ~HexToInt(line[k]).ok
    THEN [ok |-> FALSE, v |-> <<>>]
    ELSE [ok |-> TRUE,
          v |-> [i \in 1..HashLen |->
                    (HexToInt(line[2 * i - 1]).v * 16 + HexToInt(line[2 * i]).v) % 256]]

\* The text of a hash as a line of a revocation list.
HexChar(d, upper) == IF d < 10 THEN 48 + d ELSE (IF upper THEN 65 ELSE 97) + d - 10
HexLine(hash, upper) ==
    [k \in 1..(2 * Len(hash)) |->
        HexChar(IF k % 2 = 1 THEN hash[(k + 1) \div 2] \div 16
                ELSE hash[k \div 2] % 16, upper)]

\* The lines a revocation list is made of: three hashes (lower case, upper
\* case, digits only), an empty line, a comment of 40 characters,
\* lines of 39 and of 41 hex characters, a line of 40 characters with a 'g'.
LineEmpty == <<>>
LineComment40 == <<35>> \o SubSeq(HexLine(Hash9, FALSE), 1, 39)
Line39 == SubSeq(HexLine(Hash2, FALSE), 1, 39)
Line41 == HexLine(Hash2, FALSE) \o <<48>>
LineBad == [HexLine(Hash2, FALSE) EXCEPT ![6] = 103]
LineSet ==
    {HexLine(Hash1, FALSE), HexLine(Hash2, TRUE), HexLine(Hash9, FALSE),
     LineEmpty, LineComment40, Line39, Line41, LineBad}

\* AddRevocationList(filename): the file opens.
AddRevocationList ==
    /\ pc = "idle"
    /\ hist.rcalls < MaxRevCalls
    /\ pc' = "revoke"
    /\ hist' = [hist EXCEPT !.rcalls = @ + 1, !.cur = <<>>, !.ev = "list_opened"]
    /\ ret' = <<>>
    /\ UNCHANGED <<data_, offset_, mooheader_, tests_, test_map_, revocation_list_,
                   err, frame>>

\* AddRevocationList(filename): the file does not open.
AddRevocationListNoFile ==
    /\ pc = "idle"
    /\ hist.rcalls < MaxRevCalls
    /\ err' = FailedToOpen
    /\ hist' = [hist EXCEPT !.rcalls = @ + 1, !.cur = <<>>, !.rthrown = TRUE,
                             !.ev = "list_thrown"]
    /\ ret' = <<>>
    /\ UNCHANGED <<data_, offset_, mooheader_, tests_, test_map_, revocation_list_,
                   pc, frame>>

\* One iteration of "while (std::getline(file, line))".
RevokeLine(line) ==
    /\ pc = "revoke"
    /\ Len(hist.cur) < MaxLines
    /\ UNCHANGED <<data_, offset_, mooheader_, tests_, test_map_, frame, ret>>
    /\ IF SkipLine(line) THEN
            /\ hist' = [hist EXCEPT !.cur = Append(@, line), !.ev = "line_skipped"]
            /\ UNCHANGED <<revocation_list_, pc, err>>
       ELSE LET hash == HexToHash(line) IN
            IF ~hash.ok THEN
                /\ err' = InvalidRevocationValue
                /\ pc' = "idle"
                /\ hist' = [hist EXCEPT !.cur = Append(@, line), !.rthrown = TRUE,
                                         !.ev = "list_thrown"]
                /\ UNCHANGED revocation_list_
            ELSE
                /\ revocation_list_' = revocation_list_ \cup {hash.v}
                /\ hist' = [hist EXCEPT !.cur = Append(@, line), !.ev = "line_inserted"]
                /\ UNCHANGED <<pc, err>>

\* getline finds no further line: AddRevocationList returns.
RevokeReturn ==
    /\ pc = "revoke"
    /\ pc' = "idle"
    /\ err' = "none"
    /\ hist' = [hist EXCEPT !.loaded = @ \cup {hist.cur[k] : k \in DOMAIN hist.cur},
                             !.ev = "list_returned"]
    /\ UNCHANGED <<data_, offset_, mooheader_, tests_, test_map_, revocation_list_,
                   frame, ret>>

\* Reader::GetHeader(), size(), empty()
GetHeader == mooheader_
size == Len(tests_)
empty == tests_ = <<>>

\* A lookup that creates the entry it does not find (operator[] of the map).
MapSubscript(m, hash) == IF hash \in DOMAIN m THEN m ELSE MapPut(m, hash, 0)
\* test_map_.find(hash) and test_map_.at(hash): the map after the lookup.
MapAt(m, hash) == m

\* The hashes queries are made with: one that a file holds, one that no file
\* holds, and the all-zero hash.
QueryHashes == {Hash1, Hash9, [k \in 1..HashLen |-> 0]}

\* The queries, made of a Reader at rest: HasTest, GetTest, IsRevoked,
\* GetRevokedCount, GetHeader, size, empty, an iteration over the tests, and
\* the register accessors on the test GetTest returned.  A register read
\* outside values yields an indeterminate value or ends the process.
Query(hash) ==
    /\ pc = "idle"
    /\ LET found == GetTest(hash)
           type == found.v.init_state.regs.type
           regs == IF found.kind = "value"
                   THEN << GetInitialRegister(found.v, 0, type),
                           GetFinalRegister(found.v, 0, type, TRUE) >>
                   ELSE << >>
       IN \/ /\ ret' = [op |-> "query", hash |-> hash, has |-> HasTest(hash),
                         test |-> found.kind,
                         revoked |-> (found.kind = "value" /\ IsRevoked(found.v)),
                         count |-> GetRevokedCount, header |-> GetHeader,
                         size |-> size, empty |-> empty,
                         hashes |-> [k \in DOMAIN tests_ |-> tests_[k].hash],
                         regs |-> regs]
             /\ test_map_' = MapAt(test_map_, hash)
             /\ UNCHANGED <<data_, offset_, mooheader_, tests_, revocation_list_,
                            pc, err, frame, hist>>
          \/ /\ \E k \in DOMAIN regs : regs[k].kind = "undefined"
             /\ Crash
             /\ UNCHANGED <<data_, mooheader_, tests_, test_map_, revocation_list_, ret>>

\* The files loaded before revocation lists are.
RevokeBases == {<<"dup">>}

\* One Reader: at most one file, loaded first, then revocation lists.
NextRevoke ==
    \/ \E id \in RevokeBases :
          /\ hist.nloads = 0 /\ hist.rcalls = 0
          /\ AddFromFile(id, "full", FullBytes(id))
    \/ ReadTest
    \/ ReadTestSkip
    \/ AnalyzeReturn
    \/ ReadTestSubchunk
    \/ ReadTestReturn
    \/ ReadCpuStateSubchunk
    \/ ReadCpuStateReturn
    \/ AddRevocationList
    \/ AddRevocationListNoFile
    \/ \E line \in LineSet : RevokeLine(line)
    \/ RevokeReturn

SpecRevoke == Init /\ [][NextRevoke]_vars

\* The files and the revocation list lines of a Reader that is queried: the
\* file of three tests or the file whose test has no HASH and no registers; a
\* hash line, a comment and a malformed line.
QueryBases == {<<"dup">>, <<"bare">>}
QueryLines == {HexLine(Hash1, FALSE), LineComment40, LineBad}

\* One Reader: at most one file, loaded first, then revocation lists, and
\* queries whenever the Reader is at rest.
NextQuery ==
    \/ \E id \in QueryBases :
          /\ hist.nloads = 0 /\ hist.rcalls = 0
          /\ AddFromFile(id, "full", FullBytes(id))
    \/ ReadTest
    \/ ReadTestSkip
    \/ AnalyzeReturn
    \/ ReadTestSubchunk
    \/ ReadTestReturn
    \/ ReadCpuStateSubchunk
    \/ ReadCpuStateReturn
    \/ AddRevocationList
    \/ AddRevocationListNoFile
    \/ \E line \in QueryLines : RevokeLine(line)
    \/ RevokeReturn
    \/ \E hash \in QueryHashes : Query(hash)

SpecQuery == Init /\ [][NextQuery]_vars

(***************************************************************************)
(* Properties.                                                             *)
(***************************************************************************)
\* The events at which the handling of a chunk is finished.
DoneEvents == {"header_done", "skipped", "subchunk_done", "state_subchunk_done", "test_done"}

\* payload_start + declared length of the chunk just handled, from the buffer:
\* the length field is the 4 bytes before the payload.
DeclaredEnd(h) == h.done.data_start + LittleEndian(data_, h.done.data_start - 4, 4)

C1_Step ==
    /\ hist'.ev \in DoneEvents => offset_' = DeclaredEnd(hist)'
    /\ (hist.ev = "test_done" /\ hist'.ev \in {"skipped", "index_read"})
          => /\ frame'.test_header.type = SubSeq(data_, offset_ + 1, offset_ + 4)
             /\ frame'.test_header.data_start = offset_ + 8

\* C1: whenever the handling of a chunk is finished (the MOO chunk, a top-level
\* chunk skipped over, a subchunk of TEST, a subchunk of INIT / FINA, a TEST
\* chunk), whatever its tag and wherever its payload decoder left the cursor,
\* the cursor is payload_start + declared length of that chunk; and the chunk
\* header read after a TEST chunk is read from the TEST chunk's payload_end.
C1_ChunkBoundaryReset == [][C1_Step]_vars

\* A payload decoder ran past its chunk's end and the cursor was set back.
C1_Witness ==
    /\ hist.ev = "subchunk_done"
    /\ hist.left > hist.done.data_end
    /\ offset_ = hist.done.data_end

\* The tests AddFromFile appended in the call that just returned, and in the
\* call before it.
AppendedNow == SubSeq(tests_, Len(hist.pre.tests) + 1, Len(tests_))
AppendedBefore == SubSeq(hist.pre.tests, hist.mark + 1, Len(hist.pre.tests))

\* C2: a file that decodes without error, loaded again with a chunk of
\* unrecognised tag inserted at a sibling position (top level before a TEST
\* chunk, in a TEST payload after the index, in an INIT or FINA payload; the
\* enclosing lengths adjusted), decodes without error to the same header and
\* the same tests.
C2_UnknownChunkTolerance ==
    (hist.kind = "ins" /\ hist.prevKind = "full" /\ hist.prevErr = "none")
      => /\ pc # "crashed"
         /\ pc = "idle" => /\ err = "none"
                           /\ mooheader_ = hist.pre.header
                           /\ AppendedNow = AppendedBefore

\* Both tests of the two-test file came out again from a variant with an
\* unknown chunk inside an INIT or FINA payload.
C2_Witness ==
    /\ pc = "idle" /\ err = "none"
    /\ hist.kind = "ins" /\ hist.prevKind = "full" /\ hist.prevErr = "none"
    /\ Len(AppendedNow) = 2
    /\ Len(data_) > Len(FullBytes(hist.base))

\* The value of the `n` bytes after position p, least significant first.
ValueAt(p, n) ==
    data_[p + 1]
    + (IF n >= 2 THEN 256 * data_[p + 2] ELSE 0)
    + (IF n >= 4 THEN 65536 * data_[p + 3] + 16777216 * data_[p + 4] ELSE 0)

\* C3: a read of n bytes at cursor p (Read of width n, or ReadBytes of n)
\* returns iff p + n <= buffer length; then it yields exactly those bytes
\* (Read: their little-endian value) and the cursor is p + n; otherwise it
\* throws the truncated-input error and the cursor is still p.
C3_BoundsCheckedReads ==
    ret # <<>> =>
      LET p == ret.before
          n == ret.n
          fits == p + n <= Len(data_)
      IN /\ ret.res.ok <=> fits
         /\ fits => /\ offset_ = p + n
                    /\ err = "none"
                    /\ ret.op = "Read" => ret.res.v = ValueAt(p, n)
                    /\ ret.op = "ReadBytes" => ret.res.v = [k \in 1..n |-> data_[p + k]]
         /\ ~fits => /\ offset_ = p
                     /\ err = TruncatedInput

\* A 4-byte read that ends exactly at the end of the buffer.
C3_Witness ==
    /\ ret # <<>>
    /\ ret.op = "Read" /\ ret.n = 4
    /\ ret.before + 4 = Len(data_)
    /\ ret.res.ok

\* C4: when AddFromFile has failed with a structural error, the reader exposes
\* no test of that file: the test sequence (and so size()) and the
\* hash-to-index map are what they were before the call.
C4_NoPartialResult ==
    (pc = "idle" /\ hist.ev = "thrown" /\ err \in StructuralErrors)
      => /\ Len(tests_) = Len(hist.pre.tests)
         /\ tests_ = hist.pre.tests
         /\ test_map_ = hist.pre.map

\* The register sets and masks a test holds that were decoded from the file.
PopulatedSets(t) ==
    {rs \in {t.init_state.regs, t.init_state.masks,
              t.final_state.regs, t.final_state.masks} : rs.is_populated}

WidthOfCpu(cpu) == IF cpu = CPU386E THEN REG_32 ELSE REG_16

\* C5 as stated: after a successful decode every register set and mask of
\* every test of the file has the width of the header's CPU.
C5_WidthFollowsCpu ==
    (pc = "idle" /\ hist.ev = "returned" /\ err = "none")
      => \A k \in DOMAIN AppendedNow : \A rs \in PopulatedSets(AppendedNow[k]) :
            rs.type = WidthOfCpu(mooheader_.cpu_type)

RegTags == {TagREGS, TagRMSK, TagRG32, TagRM32}
WidthOfTag(tag) == IF tag \in {TagREGS, TagRMSK} THEN 2 ELSE 4
\* The set or mask the subchunk just handled was decoded into.
DecodedSet == IF hist.done.type \in {TagREGS, TagRG32} THEN frame.state.regs
              ELSE frame.state.masks

\* C5, amended: the width of a decoded register set or mask follows the tag of
\* its subchunk, whatever the header's CPU: REGS and RMSK give a 16-bit set (a
\* u16 bitmask, a table of 14), RG32 and RM32 a 32-bit set (a u32 bitmask, a
\* table of 20); and every set of every decoded test is one of the two.
C5_WidthFollowsTag ==
    /\ (hist.ev = "state_subchunk_done" /\ hist.done.type \in RegTags)
          => LET w == WidthOfTag(hist.done.type) IN
             /\ DecodedSet.is_populated
             /\ DecodedSet.type = (IF w = 2 THEN REG_16 ELSE REG_32)
             /\ DOMAIN DecodedSet.values = 0..((IF w = 2 THEN 14 ELSE 20) - 1)
             /\ DecodedSet.bitmask = LittleEndian(data_, hist.done.data_start, w)
    /\ \A k \in DOMAIN tests_ : \A rs \in PopulatedSets(tests_[k]) :
          \/ rs.type = REG_16 /\ DOMAIN rs.values = 0..13
          \/ rs.type = REG_32 /\ DOMAIN rs.values = 0..19

\* An RG32 subchunk decoded as a 32-bit set in a file whose header says 8086.
C5_Witness ==
    /\ hist.ev = "state_subchunk_done"
    /\ hist.done.type = TagRG32
    /\ mooheader_.cpu_type = CPU8086
    /\ frame.state.regs.type = REG_32

\* The buffer holds the MOO chunk header, a supported version pair and the
\* four bytes of the CPU identifier.
HeaderHeld ==
    /\ hist.nloads >= 1
    /\ Len(data_) >= 20
    /\ SubSeq(data_, 1, 4) = TagMOO
    /\ <<data_[9], data_[10]>> \in {<<1, 0>>, <<1, 1>>}

CpuEnumeration == {Id8088, Id8086, IdV20, IdV30, Id186, IdC286, Id386E}

\* C6: a header whose identifier is one of 8088, 8086, V20, V30, 186, C286,
\* 386E does not fail with the unsupported-CPU error.
C6_CpuIdResolution ==
    (HeaderHeld /\ SubSeq(data_, 17, 20) \in CpuEnumeration)
      => ~(hist.ev = "thrown" /\ err = UnsupportedCpu)

\* The buffer holds the MOO chunk header and the version pair.
PairHeld ==
    /\ hist.nloads >= 1
    /\ Len(data_) >= 10
    /\ SubSeq(data_, 1, 4) = TagMOO

VersionPair == <<data_[9], data_[10]>>

\* C7 as stated: every pair other than (1,0) and (1,1) fails with the
\* unsupported-version error.
C7_VersionGate ==
    (PairHeld /\ VersionPair \notin {<<1, 0>>, <<1, 1>>})
      => (pc = "idle" /\ err = UnsupportedVersion)

\* C7, amended: decoding goes on past the header only for (1,0) and (1,1); for
\* any other pair the call fails with the cursor before the CPU identifier,
\* cpu_type and the tests untouched: with the unsupported-version error when
\* the buffer holds the reserved bytes and the test count that follow the pair
\* (they are read before the version is looked at), with the truncated-input
\* error when it does not.
C7_VersionGateAfterCount ==
    PairHeld =>
      IF VersionPair \in {<<1, 0>>, <<1, 1>>}
      THEN ~(hist.ev = "thrown" /\ err = UnsupportedVersion)
      ELSE /\ pc = "idle" /\ hist.ev = "thrown"
           /\ err = (IF Len(data_) >= 16 THEN UnsupportedVersion ELSE TruncatedInput)
           /\ offset_ <= 16
           /\ mooheader_.cpu_type = hist.pre.header.cpu_type
           /\ tests_ = hist.pre.tests
           /\ test_map_ = hist.pre.map

\* Version 2.0 was refused after the test count was read.
C7_Witness ==
    /\ PairHeld /\ VersionPair = <<2, 0>>
    /\ err = UnsupportedVersion
    /\ offset_ = 16

\* C8: when the first chunk's tag is not "MOO " the call fails with the
\* invalid-container error, the cursor right after the chunk header, header
\* and tests untouched; when the header was decoded the tag is "MOO " and the
\* cursor is payload_start + declared length, also for a payload longer than 12.
C8_MandatoryHeaderChunk ==
    /\ (hist.nloads >= 1 /\ Len(data_) >= 8 /\ SubSeq(data_, 1, 4) # TagMOO)
          => /\ pc = "idle" /\ hist.ev = "thrown"
             /\ err = InvalidContainer
             /\ offset_ = 8
             /\ mooheader_ = hist.pre.header
             /\ tests_ = hist.pre.tests
    /\ hist.ev = "header_done"
          => /\ SubSeq(data_, 1, 4) = TagMOO
             /\ offset_ = 8 + LittleEndian(data_, 4, 4)

\* A first chunk tagged "MOO" + NUL was refused.
C8_Witness ==
    /\ hist.nloads >= 1 /\ Len(data_) >= 8
    /\ SubSeq(data_, 1, 4) = TagMOO0
    /\ err = InvalidContainer

\* The bit positions set in a bitmask of w bytes.
SetBits(bm, w) ==
    {b \in 0..(IF w = 2 THEN 15 ELSE 30) : (bm \div Pow2(b)) % 2 = 1}

\* C9: for every bitmask, the register decoder returns having read one value
\* per set bit after the bitmask; the i-th value is the value of the register
\* at the position of the i-th set bit; the other registers hold no value of
\* the input.
C9_BitmaskDecode ==
    /\ pc # "crashed"
    /\ (hist.ev = "state_subchunk_done" /\ hist.done.type \in RegTags)
          => LET w == WidthOfTag(hist.done.type)
                 s == hist.done.data_start
                 bits == SetBits(LittleEndian(data_, s, w), w)
                 rank(b) == Cardinality({c \in bits : c < b})
             IN /\ hist.left = s + w * (1 + Cardinality(bits))
                /\ \A b \in bits :
                      /\ b \in DOMAIN DecodedSet.values
                      /\ DecodedSet.values[b] = LittleEndian(data_, s + w + w * rank(b), w)
                /\ \A r \in (DOMAIN DecodedSet.values) \ bits : DecodedSet.values[r] = 0

\* C10: for every decoded test whose initial state holds a register set, and
\* every register of that set's width: when the register's bit is clear in the
\* final bitmask GetFinalRegister, masked or not, returns the initial-state
\* value; when it is set GetFinalRegister returns the final-state value.  The
\* scenario test (INIT ax = 0, bx = 0x1234; FINA only ax = 0x1234) gives final
\* bx = 0x1234 and final ax = 0x1234.
C10_UnchangedRegisterFallback ==
    \A k \in DOMAIN tests_ :
      LET t == tests_[k]
          init == t.init_state.regs
          final == t.final_state.regs
          value(v) == [kind |-> "value", v |-> v]
      IN /\ (init.is_populated /\ (final.is_populated => final.type = init.type))
              => \A reg \in DOMAIN init.values :
                    IF reg \notin SetBits(final.bitmask, 4)
                    THEN \A masked \in BOOLEAN :
                            GetFinalRegister(t, reg, init.type, masked) = value(init.values[reg])
                    ELSE GetFinalRegister(t, reg, init.type, FALSE) = value(final.values[reg])
         /\ t.name = NameMov
              => /\ init.values[0] = 0
                 /\ \A masked \in BOOLEAN :
                      /\ GetFinalRegister(t, 1, REG_16, masked) = value(4660)
                      /\ GetFinalRegister(t, 0, REG_16, masked) = value(4660)

\* The scenario test was decoded: bx is absent from its final state.
C10_Witness ==
    \E k \in DOMAIN tests_ :
      /\ tests_[k].name = NameMov
      /\ tests_[k].final_state.regs.bitmask = 1
      /\ tests_[k].init_state.regs.values[1] = 4660

\* The file of the load that just returned, as a tree of chunks.
LoadedFile == Base(hist.base).file

\* Whether the file has a top-level RMSK / RM32 chunk, and that chunk.
HasTopMask == \E k \in DOMAIN LoadedFile.top : LoadedFile.top[k].tag \in {TagRMSK, TagRM32}
TopMask ==
    LoadedFile.top[CHOOSE k \in DOMAIN LoadedFile.top :
                      LoadedFile.top[k].tag \in {TagRMSK, TagRM32}]

\* The mask value the top-level chunk holds for a register: [has, v].
TopMaskValue(reg) ==
    LET w == WidthOfTag(TopMask.tag)
        bits == SetBits(LittleEndian(TopMask.pre, 0, w), w)
    IN IF reg \in bits
       THEN [has |-> TRUE,
             v |-> LittleEndian(TopMask.pre, w + w * Cardinality({c \in bits : c < reg}), w)]
       ELSE [has |-> FALSE, v |-> 0]

\* The mask value a test's own final-state RMSK / RM32 holds for a register.
OwnMaskValue(t, reg) ==
    IF reg \in SetBits(t.final_state.masks.bitmask, 4)
    THEN [has |-> TRUE, v |-> t.final_state.masks.values[reg]]
    ELSE [has |-> FALSE, v |-> 0]

\* The mask value that governs a register of a test: the test's own final-state
\* mask when it has one, otherwise the file's top-level mask, otherwise none.
GoverningMask(t, reg) ==
    IF t.final_state.masks.is_populated THEN OwnMaskValue(t, reg)
    ELSE IF HasTopMask THEN TopMaskValue(reg)
    ELSE [has |-> FALSE, v |-> 0]

\* A whole file was just decoded without error.
FileDecoded == pc = "idle" /\ hist.ev = "returned" /\ err = "none" /\ hist.kind = "full"

\* The tests of the file just decoded that hold an initial and a final register
\* set of one width.
WithBothSets ==
    {k \in DOMAIN AppendedNow :
        /\ AppendedNow[k].init_state.regs.is_populated
        /\ AppendedNow[k].final_state.regs.is_populated
        /\ AppendedNow[k].final_state.regs.type = AppendedNow[k].init_state.regs.type}

\* C11: for every test and register, GetFinalRegister(reg, true) is
\* GetFinalRegister(reg, false) & mask(reg) when a mask value governs reg, and
\* GetFinalRegister(reg, false) otherwise; GetInitialRegister is the
\* initial-state value, never masked.
C11_MaskingLaw ==
    FileDecoded =>
      \A k \in WithBothSets :
        LET t == AppendedNow[k]
            type == t.init_state.regs.type
        IN \A reg \in DOMAIN t.init_state.regs.values :
             LET raw == GetFinalRegister(t, reg, type, FALSE)
                 gm == GoverningMask(t, reg)
             IN /\ GetFinalRegister(t, reg, type, TRUE)
                      = (IF gm.has THEN [kind |-> "value", v |-> BitAnd(raw.v, gm.v)]
                         ELSE raw)
                /\ GetInitialRegister(t, reg, type)
                      = [kind |-> "value", v |-> t.init_state.regs.values[reg]]

\* C12: for a register the final state holds, the masked final value uses the
\* test's own final-state mask when the test has one; otherwise the file's
\* top-level mask when the file has one; otherwise it is the unmasked value.
C12_MaskPrecedence ==
    FileDecoded =>
      \A k \in WithBothSets :
        LET t == AppendedNow[k]
            type == t.init_state.regs.type
            final == t.final_state.regs
            masked(reg) == GetFinalRegister(t, reg, type, TRUE)
            with(reg, m) == [kind |-> "value",
                             v |-> IF m.has THEN BitAnd(final.values[reg], m.v)
                                   ELSE final.values[reg]]
        IN \A reg \in (DOMAIN final.values) \cap SetBits(final.bitmask, 4) :
             IF t.final_state.masks.is_populated
             THEN masked(reg) = with(reg, OwnMaskValue(t, reg))
             ELSE IF HasTopMask
             THEN masked(reg) = with(reg, TopMaskValue(reg))
             ELSE masked(reg) = with(reg, [has |-> FALSE, v |-> 0])

\* The condition the specification names for a repeated hash.
DuplicateHash == "DuplicateHash"

\* Two tests of the collection carry the same hash.
SharedHash ==
    \E j, k \in DOMAIN tests_ :
        /\ j < k
        /\ tests_[j].has_hash /\ tests_[k].has_hash
        /\ tests_[j].hash = tests_[k].hash

\* C13: when two tests decoded into one collection carry the same hash, the
\* call that decoded them surfaces a DuplicateHash condition to the caller.
C13_DuplicateHashDetection ==
    (pc = "idle" /\ hist.ev = "returned" /\ hist.kind = "full" /\ hist.nloads = 1
        /\ SharedHash)
    => err = DuplicateHash

\* The reader held nothing before the file that was just decoded.
OneFileDecoded == FileDecoded /\ hist.pre.tests = <<>> /\ hist.pre.map = <<>>

\* The hashes of the decoded tests and the largest 0-based position of each.
DecodedHashes == {tests_[k].hash : k \in DOMAIN tests_}
LastPosition(h) ==
    CHOOSE i \in 0..(Len(tests_) - 1) :
        /\ tests_[i + 1].hash = h
        /\ \A k \in DOMAIN tests_ : tests_[k].hash = h => k - 1 <= i

\* Hashes asked for: those of the input files, one of no file, the zero hash.
SampleHashes == {Hash1, Hash2, Hash9, [k \in 1..HashLen |-> 0]}

\* C14: after a successful decode of one file the index has exactly one entry per
\* distinct hash of the decoded tests, the entry of h is the largest position
\* whose test has hash h, HasTest(h) is true exactly for those hashes and
\* GetTest(h) throws for every other hash.
C14_LastWriteWins ==
    OneFileDecoded =>
      /\ DOMAIN test_map_ = DecodedHashes
      /\ \A h \in DecodedHashes : test_map_[h] = LastPosition(h)
      /\ \A h \in SampleHashes \cup DecodedHashes :
            /\ HasTest(h) = (h \in DecodedHashes)
            /\ IF h \in DecodedHashes
               THEN GetTest(h) = [kind |-> "value", v |-> tests_[LastPosition(h) + 1]]
               ELSE GetTest(h).kind = "throw"

\* Three tests were decoded, the first and the third with one hash: the index
\* holds the third; a hash of no test is asked for as well.
C14_Witness ==
    /\ OneFileDecoded
    /\ Len(tests_) = 3
    /\ tests_[1].hash = Hash1 /\ tests_[3].hash = Hash1
    /\ test_map_[Hash1] = 2
    /\ Hash9 \notin DecodedHashes

\* The hexadecimal digits, lower and upper case: "0123456789abcdef" and
\* "0123456789ABCDEF".
DigitsLower == <<48, 49, 50, 51, 52, 53, 54, 55, 56, 57, 97, 98, 99, 100, 101, 102>>
DigitsUpper == <<48, 49, 50, 51, 52, 53, 54, 55, 56, 57, 65, 66, 67, 68, 69, 70>>
IsHexDigit(c) == \E d \in 1..16 : DigitsLower[d] = c \/ DigitsUpper[d] = c
DigitValue(c) == (CHOOSE d \in 1..16 : DigitsLower[d] = c \/ DigitsUpper[d] = c) - 1

\* A line of exactly 40 hexadecimal characters, and the 20 bytes it writes.
IsHashLine(line) == Len(line) = 40 /\ \A k \in 1..40 : IsHexDigit(line[k])
ByteValue(line) ==
    [i \in 1..20 |-> 16 * DigitValue(line[2 * i - 1]) + DigitValue(line[2 * i])]

\* The lines of all the lists loaded so far that are hash lines.
HashLinesLoaded == {l \in hist.loaded : IsHashLine(l)}

\* Every AddRevocationList call so far returned, and there was one.
ListsLoaded == pc = "idle" /\ hist.rcalls > 0 /\ ~hist.rthrown

\* Tests asked about: those of the collection and one per sample hash.
SampleTests ==
    {tests_[k] : k \in DOMAIN tests_} \cup {[DefaultTest EXCEPT !.hash = h] : h \in SampleHashes}

C15_Membership ==
    ListsLoaded =>
      /\ revocation_list_ = {ByteValue(l) : l \in HashLinesLoaded}
      /\ \A t \in SampleTests :
            IsRevoked(t) = (\E l \in HashLinesLoaded : ByteValue(l) = t.hash)

\* C15: after any sequence of successful AddRevocationList calls, IsRevoked(test)
\* is true exactly when the test's hash is the byte value of some line of 40
\* hexadecimal characters (either case) of some loaded list; the set is the
\* union of the lists and no step removes an element from it.
C15_RevocationMembership ==
    [](C15_Membership) /\ [][revocation_list_ \subseteq revocation_list_']_vars

\* Two lists were loaded, one with an upper-case line; a test of the collection
\* is revoked and another is not.
C15_Witness ==
    /\ ListsLoaded /\ hist.rcalls = 2
    /\ HexLine(Hash2, TRUE) \in hist.loaded
    /\ HexLine(Hash9, FALSE) \in hist.loaded
    /\ Cardinality(revocation_list_) = 2
    /\ \E j, k \in DOMAIN tests_ : IsRevoked(tests_[j]) /\ ~IsRevoked(tests_[k])

\* The tests of the collection whose hash is in the revocation set.
RevokedTests == {k \in DOMAIN tests_ : tests_[k].hash \in revocation_list_}

\* C16: GetRevokedCount returns the number of tests of the collection whose hash
\* is in the revocation set.
C16_RevokedCount ==
    pc = "idle" => GetRevokedCount = Cardinality(RevokedTests)

\* The line the loop has just read.
LineRead == hist.cur[Len(hist.cur)]

\* A line the list format ignores: empty, a comment, or not 40 characters long.
IgnoredLine(line) == Len(line) = 0 \/ line[1] = 35 \/ Len(line) < 40 \/ Len(line) > 40

\* Reading an ignored line changes nothing and raises nothing.
C17_Step ==
    (pc = "revoke" /\ Len(hist'.cur) = Len(hist.cur) + 1 /\ IgnoredLine(LineRead'))
    => /\ revocation_list_' = revocation_list_
       /\ pc' = "revoke"
       /\ err' = err

\* A list of lines of 39 hexadecimal characters only.
Only39 ==
    /\ hist.cur # <<>>
    /\ \A k \in DOMAIN hist.cur :
          Len(hist.cur[k]) = 39 /\ \A j \in 1..39 : IsHexDigit(hist.cur[k][j])

C17_ShortLines ==
    (pc = "idle" /\ hist.ev \in {"list_returned", "list_thrown"} /\ hist.rcalls = 1 /\ Only39)
    => hist.ev = "list_returned" /\ err = "none" /\ revocation_list_ = {}

\* C17: empty lines, lines starting with '#' and lines whose length is not 40 are
\* ignored without error and without changing the revocation set; a list of
\* 39-character hexadecimal lines only loads successfully and leaves the set
\* empty.
C17_LineFiltering == [][C17_Step]_vars /\ [](C17_ShortLines)

\* A list of two 39-character lines was loaded into an empty set.
C17_Witness ==
    /\ pc = "idle" /\ hist.ev = "list_returned" /\ hist.rcalls = 1
    /\ hist.cur = <<Line39, Line39>>
    /\ revocation_list_ = {}

\* A line of 40 characters one of which is no hexadecimal digit.
MalformedLine(line) == Len(line) = 40 /\ \E k \in 1..40 : ~IsHexDigit(line[k])

\* C18: a malformed line, a 40-character line with a non-hexadecimal character
\* included, is skipped: the load goes on with the next line, and the hash lines
\* read before it are in the set.
C18_MalformedLineSkipped ==
    (/\ hist.ev \in {"line_skipped", "line_inserted", "list_thrown"}
     /\ hist.cur # <<>>
     /\ MalformedLine(LineRead))
    => /\ pc = "revoke"
       /\ hist.ev = "line_skipped"
       /\ \A k \in DOMAIN hist.cur :
             IsHashLine(hist.cur[k]) => ByteValue(hist.cur[k]) \in revocation_list_

\* A CYCL subchunk of a test has just been decoded; its payload starts at
\* hist.done.data_start of the buffer.
CyclesDecoded == pc = "test_body" /\ hist.ev = "subchunk_done" /\ hist.done.type = TagCYCL

\* The record written by the 15 bytes at offset b of the buffer, field by field.
RecordAt(b) ==
    [pin_bitfield0   |-> data_[b + 1],
     address_latch   |-> data_[b + 2] + 256 * data_[b + 3] + 65536 * data_[b + 4]
                            + 16777216 * data_[b + 5],
     segment_status  |-> data_[b + 6],
     memory_status   |-> data_[b + 7],
     io_status       |-> data_[b + 8],
     pin_bitfield1   |-> data_[b + 9],
     data_bus        |-> data_[b + 10] + 256 * data_[b + 11],
     bus_status      |-> data_[b + 12],
     t_state         |-> data_[b + 13],
     queue_op_status |-> data_[b + 14],
     queue_byte_read |-> data_[b + 15]]

\* C19: a CYCL payload with count n decodes to n records, in file order, record i
\* being the 15 bytes at payload offset 4 + 15 * i read in the fixed field order,
\* every field with its raw value.
C19_CycleDecode ==
    CyclesDecoded =>
      LET start == hist.done.data_start
          n == LittleEndian(data_, start, 4)
      IN /\ Len(frame.test.cycles) = n
         /\ \A i \in 0..(n - 1) : frame.test.cycles[i + 1] = RecordAt(start + 4 + 15 * i)

\* Two different records were decoded, every field of the second non-zero
\* somewhere the first is different.
C19_Witness ==
    /\ CyclesDecoded
    /\ Len(frame.test.cycles) = 2
    /\ frame.test.cycles[1].bus_status = 6 /\ frame.test.cycles[1].t_state = 1
    /\ frame.test.cycles[2].address_latch = 1025
    /\ frame.test.cycles[2].data_bus = 37008
    /\ frame.test.cycles[2].queue_byte_read = 144

\* The top-level TEST chunks of the file just loaded, in file order.
TopTests == SelectSeq(LoadedFile.top, LAMBDA c : c.tag = TagTEST)

\* The index field and the HASH payload of a TEST chunk of the file (twenty
\* zero bytes, the hash a test starts with, when the chunk holds no HASH).
IndexIn(c) == LittleEndian(c.pre, 0, 4)
HashIn(c) ==
    IF \E k \in DOMAIN c.kids : c.kids[k].tag = TagHASH
    THEN c.kids[CHOOSE k \in DOMAIN c.kids : c.kids[k].tag = TagHASH].pre
    ELSE [k \in 1..HashLen |-> 0]

\* C20: after a successful decode size() equals the header's test_count and the
\* i-th element of the collection is decoded from the i-th top-level TEST chunk
\* of the file, whatever non-TEST chunks stand before or between the tests.
C20_TestOrder ==
    (pc = "idle" /\ hist.ev = "returned" /\ err = "none")
    => /\ Len(tests_) = mooheader_.test_count
       /\ \A i \in 1..mooheader_.test_count :
             /\ i <= Len(TopTests)
             /\ tests_[i].index = IndexIn(TopTests[i])
             /\ tests_[i].hash = HashIn(TopTests[i])

\* A QUEU chunk whose queue length is 0.
EmptyQueue == Leaf(TagQUEU, <<0, 0, 0, 0>>)

\* The INIT and FINA chunks of a TEST chunk of the file that hold an empty QUEU.
StatesWithEmptyQueue(c) ==
    {j \in DOMAIN c.kids :
        /\ c.kids[j].tag \in {TagINIT, TagFINA}
        /\ \E m \in DOMAIN c.kids[j].kids : c.kids[j].kids[m] = EmptyQueue}

\* The state the subchunks of an INIT / FINA chunk decode to, each subchunk
\* decoded on its own from its bytes.
RECURSIVE StateOfKids(_, _)
StateOfKids(kids, state) ==
    IF kids = <<>> THEN state
    ELSE StateOfKids(Tail(kids),
                     ReadStateChunk(state, Head(kids).tag, Ser(Head(kids)), 8).state)

\* The file just loaded is complete and one of the tests its header counts
\* holds an empty QUEU.
EmptyQueueFile ==
    /\ LittleEndian(LoadedFile.hdr, 4, 4) <= Len(TopTests)
    /\ \E i \in 1..LittleEndian(LoadedFile.hdr, 4, 4) : StatesWithEmptyQueue(TopTests[i]) # {}

\* C21: a QUEU chunk of queue length 0 inside INIT or FINA decodes without error
\* to a state with has_queue true and an empty byte sequence, and the chunks
\* after it decode as they do without the QUEU chunk.
C21_EmptyQueue ==
    /\ (pc = "state" /\ hist.ev = "state_subchunk_done" /\ hist.done.type = TagQUEU
          /\ LittleEndian(data_, hist.done.data_start, 4) = 0)
       => frame.state.has_queue /\ frame.state.queue = <<>>
    /\ (pc = "idle" /\ hist.kind = "full" /\ hist.ev \in {"returned", "thrown"}
          /\ EmptyQueueFile)
       => err = "none"
    /\ FileDecoded =>
         \A i \in DOMAIN AppendedNow :
           \A j \in StatesWithEmptyQueue(TopTests[i]) :
             LET c == TopTests[i].kids[j]
                 got == IF c.tag = TagINIT THEN AppendedNow[i].init_state
                        ELSE AppendedNow[i].final_state
                 rest == SelectSeq(c.kids, LAMBDA k : k.tag # TagQUEU)
             IN got = [StateOfKids(rest, DefaultCpuState)
                          EXCEPT !.has_queue = TRUE, !.queue = <<>>]

\* A test was decoded whose final state holds an empty queue and the mask of
\* the RMSK chunk behind it.
C21_Witness ==
    /\ FileDecoded
    /\ \E i \in DOMAIN AppendedNow :
          /\ StatesWithEmptyQueue(TopTests[i]) # {}
          /\ AppendedNow[i].final_state.has_queue
          /\ AppendedNow[i].final_state.queue = <<>>
          /\ AppendedNow[i].final_state.masks.is_populated
          /\ AppendedNow[i].final_state.masks.values[13] = 4053

\* The same file was just decoded for the second time, both times with success.
DecodedTwice ==
    /\ pc = "idle" /\ hist.ev = "returned" /\ err = "none"
    /\ hist.nloads = 2 /\ hist.kind = "full" /\ hist.prevKind = "full"
    /\ hist.prevErr = "none"

\* C22: decoding the same buffer twice gives identical results: header, test
\* sequence (its length included) and hash-to-index map after the second decode
\* equal those after the first.
C22_Idempotence ==
    DecodedTwice =>
      /\ mooheader_ = hist.pre.header
      /\ tests_ = hist.pre.tests
      /\ test_map_ = hist.pre.map

\* An AddFromFile call is running.
Decoding == pc \in {"tests", "skip", "test_body", "state"}

\* Where the running iteration of each of the three nested loops started: the
\* top-level loop over chunks, the TEST subchunk loop, the INIT / FINA subchunk
\* loop (0 for a loop that is not running).
LoopStarts ==
    << IF pc \in {"tests", "skip"} THEN offset_ ELSE frame.test_header.data_start - 8,
       IF pc = "test_body" THEN offset_
       ELSE IF pc = "state" THEN frame.chunk.data_start - 8 ELSE 0,
       IF pc = "state" THEN offset_ ELSE 0 >>

\* Lexicographic order on these triples.
Before(a, b) ==
    \/ a[1] < b[1]
    \/ a[1] = b[1] /\ a[2] < b[2]
    \/ a[1] = b[1] /\ a[2] = b[2] /\ a[3] < b[3]

\* Every finished iteration of the skip loop, of the TEST subchunk loop and of
\* the INIT / FINA subchunk loop leaves the cursor at least 8 bytes past the
\* place its chunk header was read at; a subchunk loop whose cursor has reached
\* its end takes no further iteration; a step of a call that does not end it
\* moves the loops forward, and no iteration starts less than 8 bytes before
\* the end of the buffer.
C23_Step ==
    /\ hist'.ev \in {"skipped", "state_subchunk_done"} => offset_' >= offset_ + 8
    /\ (hist'.ev = "subchunk_done" /\ pc = "test_body") => offset_' >= offset_ + 8
    /\ (hist'.ev = "subchunk_done" /\ pc = "state") => offset_' >= frame.chunk.data_start
    /\ (pc = "test_body" /\ offset_ >= frame.test_header.data_end) => pc' = "tests"
    /\ (pc = "state" /\ offset_ >= frame.chunk.data_end) => pc' = "test_body"
    /\ (Decoding /\ Decoding') => Before(LoopStarts, LoopStarts') /\ frame'.i >= frame.i
    /\ (Decoding /\ Decoding' /\ pc' = pc /\ frame'.i = frame.i)
          => offset_ + 8 <= Len(data_)

\* C23: every decode terminates, with a collection or with an error; each loop
\* iteration moves the cursor forward by at least the 8 bytes of a chunk header
\* and the subchunk loops stop once the cursor is at or past the payload end.
C23_Termination ==
    /\ [][C23_Step]_vars
    /\ [](~Decoding => (pc = "idle" /\ hist.ev \in {"none", "returned", "thrown"}))

\* The CPU identifier of the header in the buffer.
CpuIdHeld == SubSeq(data_, 17, 20)

ResolvedIds == {Id8088, Id88, Id8086, IdV20, IdV30, Id286, IdC286, Id386E}

AllLoadsReturned ==
    /\ pc = "idle" /\ hist.ev = "returned" /\ err = "none"
    /\ hist.nloads \in {1, 2} /\ hist.prevErr = "none"

\* C25: after any sequence of successful AddFromFile calls every entry (h -> i)
\* of the index has i < size() and the test at position i has hash h, so
\* GetTest(h) returns a test whose hash is h.
C25_IndexConsistency ==
    AllLoadsReturned =>
      \A h \in DOMAIN test_map_ :
        /\ test_map_[h] < Len(tests_)
        /\ tests_[test_map_[h] + 1].hash = h
        /\ GetTest(h).kind = "value" /\ GetTest(h).v.hash = h

\* The chunks whose payload a decoder reads: the MOO header, the leaf subchunks
\* of a test and the subchunks of a CPU state.
PayloadDecoded ==
    /\ hist.ev \in {"header_done", "subchunk_done", "state_subchunk_done"}
    /\ hist.done.type \notin {TagINIT, TagFINA}

\* C26: while the payload of a chunk is decoded no byte at or beyond the
\* chunk's payload end is read, so the decoder stops at or before the payload
\* end and the reset to the payload end never moves the cursor backward.
C26_PayloadBoundedReads ==
    PayloadDecoded =>
      /\ hist.left <= hist.done.data_end
      /\ offset_ >= hist.left

\* C27: in every state of a decode, and after a successful decode, the cursor
\* lies between 0 and the buffer length.
C27_CursorInBuffer ==
    (hist.nloads > 0 /\ pc # "crashed") => (0 <= offset_ /\ offset_ <= Len(data_))

\* The register sets of a test.
RegisterSetsOf(test) ==
    {test.init_state.regs, test.init_state.masks,
     test.final_state.regs, test.final_state.masks}

\* C28: every index into a values array is below the array's length: no
\* register decode writes outside values (a 16-bit bitmask with bit 14 or 15, a
\* 32-bit bitmask with a bit from 20 up), and GetInitialRegister and
\* GetFinalRegister read inside values on every successfully decoded test.
C28_RegisterBounds ==
    /\ pc # "crashed"
    /\ (pc = "idle" /\ hist.ev = "returned" /\ err = "none") =>
         \A k \in 1..Len(tests_) :
           /\ \A r \in RegisterSetsOf(tests_[k]) :
                \A i \in 0..30 : BitSet(r.bitmask, i) => i \in DOMAIN r.values
           /\ \A reg \in 0..(REG16_COUNT - 1) :
                /\ GetInitialRegister(tests_[k], reg, REG_16).kind # "undefined"
                /\ \A masked \in BOOLEAN :
                     GetFinalRegister(tests_[k], reg, REG_16, masked).kind # "undefined"
           /\ \A reg \in 0..(REG32_COUNT - 1) :
                /\ GetInitialRegister(tests_[k], reg, REG_32).kind # "undefined"
                /\ \A masked \in BOOLEAN :
                     GetFinalRegister(tests_[k], reg, REG_32, masked).kind # "undefined"

\* A query returned.
Queried == ret' # ret /\ ret' # <<>> /\ ret'.op = "query"

\* A step of AddRevocationList, a step of AddFromFile.
RevocationStep == pc = "revoke" \/ pc' = "revoke" \/ hist'.rcalls # hist.rcalls
LoadStep == hist'.nloads # hist.nloads \/ Decoding

C29_Step ==
    /\ Queried => UNCHANGED <<tests_, mooheader_, test_map_, revocation_list_, offset_>>
    /\ RevocationStep => UNCHANGED <<tests_, mooheader_, test_map_, offset_>>
    /\ LoadStep => UNCHANGED revocation_list_

\* C29: IsRevoked, GetRevokedCount, HasTest, GetTest, GetHeader, size, empty,
\* iteration and the register accessors leave the tests, the header, the index,
\* the revocation set and the cursor as they are; AddRevocationList changes
\* nothing but the revocation set and AddFromFile never changes the revocation
\* set.
C29_ReadOnly == [][C29_Step]_vars

\* After a file and a revocation list were loaded, a query for a hash that is
\* not indexed returned.
C29_Witness ==
    /\ ret # <<>> /\ ret.op = "query"
    /\ pc = "idle" /\ Len(tests_) > 0 /\ revocation_list_ # {}
    /\ ~ret.has /\ ret.test = "throw" /\ ret.hash \notin DOMAIN test_map_

\* C30: after a successful decode HasTest(h) holds exactly of the hashes h that
\* some decoded test carries in a HASH subchunk; a test without a HASH subchunk
\* contributes no key and IsRevoked never reports it revoked.
C30_OnlyHashedIndexed ==
    (pc = "idle" /\ hist.ev = "returned" /\ err = "none") =>
      /\ \A h \in SampleHashes \cup DOMAIN test_map_ :
            HasTest(h) <=> (\E k \in DOMAIN tests_ :
                              tests_[k].has_hash /\ tests_[k].hash = h)
      /\ \A k \in DOMAIN tests_ : ~tests_[k].has_hash => ~IsRevoked(tests_[k])

====
